---- MODULE Spec2Model ----
(***************************************************************************)
(* Payload-range envelope, grid generation, sweep and reconstruction of    *)
(* fastoad/gui/payload_range/payload_range_file.py.                        *)
(*                                                                         *)
(* Real numbers of the program are modelled as exact rationals <<n, d>>    *)
(* with d > 0, kept in lowest terms.  Floating point rounding is not       *)
(* modelled.                                                               *)
(***************************************************************************)
EXTENDS Integers, Sequences, FiniteSets, TLC

VARIABLES
    gin,      \* arguments of the grid_generation call under study
    gout,     \* what that call returned ("none" before the call)
    args,     \* arguments of the running (or last) payload_range_loop_computation
    pc,       \* where payload_range_loop_computation stands ("idle": not running)
    grid,     \* its local grid: ranges, payloads, fuel (row 2), n_values_ranges
    idx,      \* its loop index i
    workdir,  \* mission_inputs.xml, mission_outputs.xml, mission_study.csv
    table,    \* the results table file_save in the data folder
    desc,     \* the descriptor "grid_" + file_save in the data folder
    log,      \* simulator traffic of the running sweep, in order
    outcome,  \* how the last payload_range_loop_computation ended
    runs,     \* number of sweeps started
    full,     \* what the last payload_range_full call did
    atStart,  \* table and descriptor as they were when the sweep started
    sim,      \* which mission simulator response the workdir configuration gives
    env,      \* a breguet_leduc_points call: its inputs, locals and result
    seed,     \* the seeding of the mission inputs (lines 559-639): the aircraft
              \* file, input_file_mission, what was printed, where it stands
    vn        \* a VnDiagram.compute call: its masses, load factors, position

sweepVars == <<args, pc, grid, idx, workdir, table, desc, log, outcome, runs, full, atStart, sim>>
vars == <<gin, gout, args, pc, grid, idx, workdir, table, desc, log, outcome, runs, full, atStart, sim,
          env, seed, vn>>

(***************************************************************************)
(* Exact rational arithmetic                                               *)
(***************************************************************************)
Abs(x) == IF x < 0 THEN -x ELSE x

RECURSIVE GCD(_, _)
GCD(a, b) == IF b = 0 THEN a ELSE GCD(b, a % b)

\* n/d in lowest terms with a positive denominator (d # 0)
Rat(n, d) ==
    LET s == IF d < 0 THEN -1 ELSE 1
        g == GCD(Abs(n), Abs(d))
    IN  <<(s * n) \div g, (s * d) \div g>>

RInt(k) == <<k, 1>>
RAdd(a, b) == Rat(a[1] * b[2] + b[1] * a[2], a[2] * b[2])
RSub(a, b) == Rat(a[1] * b[2] - b[1] * a[2], a[2] * b[2])
RMul(a, b) == Rat(a[1] * b[1], a[2] * b[2])
RDiv(a, b) == Rat(a[1] * b[2], a[2] * b[1])
RLt(a, b) == a[1] * b[2] < b[1] * a[2]
RLe(a, b) == a[1] * b[2] <= b[1] * a[2]
RGe(a, b) == RLe(b, a)
RGt(a, b) == RLt(b, a)
\* smallest integer >= a
RCeil(a) == -((-a[1]) \div a[2])

RECURSIVE SumSeq(_)
SumSeq(s) == IF s = <<>> THEN 0 ELSE Head(s) + SumSeq(Tail(s))

Reverse(s) == [k \in 1..Len(s) |-> s[Len(s) + 1 - k]]

RECURSIVE Flatten(_)
Flatten(ss) == IF ss = <<>> THEN <<>> ELSE Head(ss) \o Flatten(Tail(ss))

(***************************************************************************)
(* numpy helpers used by grid_generation                                   *)
(***************************************************************************)
\* np.arange(start, stop, step), step # 0: start + k*step for
\* k = 0 .. ceil((stop - start) / step) - 1
ArangeLen(start, stop, step) ==
    LET c == RCeil(RDiv(RSub(stop, start), step))
    IN  IF c > 0 THEN c ELSE 0

Arange(start, stop, step) ==
    [k \in 1..ArangeLen(start, stop, step) |-> RAdd(start, RMul(RInt(k - 1), step))]

\* np.linspace(start, stop, num), num >= 1 (0-based index i is element i + 1)
Linspace(start, stop, num) ==
    [k \in 1..num |->
        IF num = 1 THEN start
        ELSE RAdd(start, RMul(RInt(k - 1), RDiv(RSub(stop, start), RInt(num - 1))))]

(***************************************************************************)
(* grid_generation.  g is the record of its arguments together with the    *)
(* envelope returned by breguet_leduc_points:                              *)
(*   max_payload, payload_c, ra_b, ra_c, ra_d   envelope (rationals)       *)
(*   n            n_intervals_payloads (integer >= 1)                      *)
(*   range_step, upper, lower, right, left      rationals                  *)
(*   alt          alternative_grid                                         *)
(* Sequences are 1-based: band k of the model is band k - 1 of the code.   *)
(***************************************************************************)
\* step 1: val_payloads
ValPayloads(g) ==
    Linspace(RMul(g.lower, g.max_payload), RMul(g.upper, g.max_payload), g.n)

\* the search falling back on the last band when no band reaches payload_c
BreakCandidatesOrLast(g, val_payloads) ==
    IF {k \in 1..g.n : RGe(val_payloads[k], g.payload_c)} = {} THEN {g.n}
    ELSE {k \in 1..g.n : RGe(val_payloads[k], g.payload_c)}

\* np.where(val_payloads >= payload_c)[0]
BreakCandidates(g, val_payloads) == {k \in 1..g.n : RGe(val_payloads[k], g.payload_c)}

\* ra_c_id (1-based); [0][0] of an empty np.where result is an IndexError
RaCId(g, val_payloads) ==
    CHOOSE k \in BreakCandidates(g, val_payloads) :
        \A j \in BreakCandidates(g, val_payloads) : k <= j

\* step 2: max_range, safety margin included
MaxRange(g, val_payloads, ra_c_id) ==
    [k \in 1..g.n |->
        RMul(g.right,
             IF k < ra_c_id
             THEN RAdd(RMul(RDiv(RSub(g.ra_c, g.ra_d), g.payload_c), val_payloads[k]),
                       g.ra_d)
             ELSE RAdd(RMul(RDiv(RSub(g.ra_b, g.ra_c), RSub(g.max_payload, g.payload_c)),
                            RSub(val_payloads[k], g.payload_c)),
                       g.ra_c))]

\* min_range, floored at range_step
MinRange(g) ==
    LET m == RMul(g.left, g.ra_b)
    IN  IF RLt(m, g.range_step) THEN g.range_step ELSE m

\* alternative policy: pente, delta_y, delta_x
DeltaX(g, val_payloads) ==
    LET pente   == RDiv(RSub(g.payload_c, g.max_payload), RSub(g.ra_c, g.ra_b))
        delta_y == RSub(val_payloads[2], val_payloads[1])
    IN  RDiv(RSub(RInt(0), delta_y), pente)

\* range_add with the first segment stopped at the band's own max range
\* instead of ra_b
AltRangeAddBandLimited(g, max_range_i, min_range, delta_x) ==
    LET first == Arange(min_range, max_range_i, g.range_step)
    IN  IF Len(first) = 0 THEN <<>>
        ELSE first \o Arange(first[Len(first)], RAdd(max_range_i, RInt(1)), delta_x)

\* one pass of the while loop body: range_add for a band whose max range is
\* max_range_i
AltRangeAdd(g, max_range_i, min_range, delta_x) ==
    LET first == Arange(min_range, g.ra_b, g.range_step)
    IN  IF Len(first) = 0 THEN <<>>
        ELSE first \o Arange(first[Len(first)], RAdd(max_range_i, RInt(1)), delta_x)

\* the while loop without its emptiness test: every band is appended
RECURSIVE AltLoopNoStop(_, _, _, _, _, _)
AltLoopNoStop(g, max_range, min_range, delta_x, i, rows) ==
    IF i > g.n THEN rows
    ELSE AltLoopNoStop(g, max_range, min_range, delta_x, i + 1,
                       Append(rows, AltRangeAdd(g, max_range[i], min_range, delta_x)))

\* the while loop: rows gathered so far, i the next band (1-based)
RECURSIVE AltLoop(_, _, _, _, _, _)
AltLoop(g, max_range, min_range, delta_x, i, rows) ==
    IF i > g.n THEN rows
    ELSE LET range_add == AltRangeAdd(g, max_range[i], min_range, delta_x)
         IN  IF Len(range_add) = 0 THEN rows
             ELSE AltLoop(g, max_range, min_range, delta_x, i + 1, Append(rows, range_add))

AltRows(g, val_payloads, max_range, min_range) ==
    AltLoop(g, max_range, min_range, DeltaX(g, val_payloads), 1, <<>>)

\* rectangular policy, 1) base rectangle
BaseRow(g, max_range, min_range) ==
    Reverse(Arange(max_range[g.n], min_range, RSub(RInt(0), g.range_step)))

\* 2) zone near MTOW and MFW: grid_x[i] = grid_x[i - 1] + [max_range[-1 - i]]
RECURSIVE GridXLoop(_, _, _, _)
GridXLoop(g, max_range, i, rows) ==
    IF i > g.n - 1 THEN rows
    ELSE GridXLoop(g, max_range, i + 1,
                   Append(rows, rows[Len(rows)] \o <<max_range[g.n - i]>>))

\* grid_x with the final grid_x.reverse() left out
RectRowsNotReversed(g, max_range, min_range) ==
    GridXLoop(g, max_range, 1, <<BaseRow(g, max_range, min_range)>>)

\* grid_x after grid_x.reverse()
RectRows(g, max_range, min_range) ==
    Reverse(GridXLoop(g, max_range, 1, <<BaseRow(g, max_range, min_range)>>))

GridRows(g, val_payloads, max_range, min_range) ==
    IF g.alt THEN AltRows(g, val_payloads, max_range, min_range)
    ELSE RectRows(g, max_range, min_range)

\* grid_payloads: np.ones(len(row)) * val_payloads[i] appended per band
PayloadRows(val_payloads, rows) ==
    [k \in 1..Len(rows) |-> [j \in 1..Len(rows[k]) |-> val_payloads[k]]]

\* n_values_ranges filled for all bands but the last (loop one short)
NValuesRangesOneShort(rows) ==
    [k \in 1..Len(rows) |-> IF k = Len(rows) THEN 0 ELSE Len(rows[k])]

\* n_values_ranges: len(row) per band
NValuesRanges(rows) == [k \in 1..Len(rows) |-> Len(rows[k])]

\* the value returned (fig left out): grid rows [range, payload, 0] and
\* n_values_ranges, or the exception that ends the call
grid_generation(g) ==
    LET val_payloads == ValPayloads(g)
    IN  IF BreakCandidates(g, val_payloads) = {} THEN [status |-> "IndexError"]
        ELSE IF g.alt /\ g.n < 2 THEN [status |-> "IndexError"]
        ELSE LET max_range == MaxRange(g, val_payloads, RaCId(g, val_payloads))
                 rows      == GridRows(g, val_payloads, max_range, MinRange(g))
                 ranges    == Flatten(rows)
             IN  [status          |-> "ok",
                  ranges          |-> ranges,
                  payloads        |-> Flatten(PayloadRows(val_payloads, rows)),
                  fuel            |-> [k \in 1..Len(ranges) |-> RInt(0)],
                  n_values_ranges |-> NValuesRanges(rows)]

\* a file that does not exist
Absent == [present |-> FALSE]

\* the simulator's files in workdir_path
ScratchFiles == {"mission_inputs.xml", "mission_outputs.xml", "mission_study.csv"}

(***************************************************************************)
(* Specification SpecGrid: grid_generation applied to arguments drawn from *)
(* bounded sets.                                                           *)
(***************************************************************************)
MaxBands == 3

Tenths(k) == Rat(k, 10)

\* envelopes: payloads in tonnes, ranges in NM
EnvMaxPayload == {10}
EnvPayloadC   == {3, 6, 9, 14}
EnvRaB        == {2, 6}
EnvRaC        == {8, 10}
EnvRaD        == {12}
StepValues    == {1, 3, 5}
LowerTol      == {2, 4}
UpperTol      == {8, 9}
RightTol      == {9, 10}
LeftTol       == {1, 5}

GridInputs ==
    { [max_payload |-> RInt(mp), payload_c |-> RInt(plc),
       ra_b |-> RInt(rb), ra_c |-> RInt(rc), ra_d |-> RInt(rd),
       n |-> n, range_step |-> RInt(st),
       upper |-> Tenths(up), lower |-> Tenths(lo),
       right |-> Tenths(ri), left |-> Tenths(le), alt |-> al] :
         mp \in EnvMaxPayload, plc \in EnvPayloadC, rb \in EnvRaB, rc \in EnvRaC,
         rd \in EnvRaD, n \in 1..MaxBands, st \in StepValues, up \in UpperTol,
         lo \in LowerTol, ri \in RightTol, le \in LeftTol, al \in BOOLEAN }

\* the sweep is not running and nothing is on disk
SweepIdle ==
    /\ args = [status |-> "none"]
    /\ pc = "idle"
    /\ grid = [status |-> "none"]
    /\ idx = 0
    /\ workdir = [f \in ScratchFiles |-> Absent]
    /\ table = Absent
    /\ desc = Absent
    /\ log = <<>>
    /\ outcome = "none"
    /\ runs = 0
    /\ full = [status |-> "none"]
    /\ atStart = [table |-> Absent, desc |-> Absent]

GridInit ==
    /\ gin \in GridInputs
    /\ gout = [status |-> "none"]
    /\ SweepIdle
    /\ sim = 1
    /\ env = [pc |-> "none"]
    /\ seed = [pc |-> "none"]
    /\ vn = [pc |-> "none"]

GridGenerationCall ==
    /\ gout.status = "none"
    /\ gout' = grid_generation(gin)
    /\ UNCHANGED <<gin, env, seed, vn>>
    /\ UNCHANGED sweepVars

GridNext == GridGenerationCall

SpecGrid == GridInit /\ [][GridNext]_vars

(***************************************************************************)
(* Claims about grid_generation (SpecGrid)                                 *)
(***************************************************************************)
GridOk == gout.status = "ok"

\* number of grid points whose payload is v
PointsWithPayload(v) == Cardinality({k \in 1..Len(gout.payloads) : gout.payloads[k] = v})

\* C2 as stated: under the rectangular policy band 0 has the fewest samples
\* and every band i >= 1 has one sample more than band i - 1.
C2_AsStated ==
    (GridOk /\ ~gin.alt) =>
        /\ \A k \in 1..Len(gout.n_values_ranges) :
               gout.n_values_ranges[1] <= gout.n_values_ranges[k]
        /\ \A k \in 2..Len(gout.n_values_ranges) :
               gout.n_values_ranges[k] = gout.n_values_ranges[k - 1] + 1

\* C2 amended: under the rectangular policy there are n_intervals_payloads
\* bands, band 0 has the most samples and every band i >= 1 has one sample
\* fewer than band i - 1.
C2_RectCountsDecreaseByOne ==
    (GridOk /\ ~gin.alt) =>
        /\ Len(gout.n_values_ranges) = gin.n
        /\ \A k \in 1..Len(gout.n_values_ranges) :
               gout.n_values_ranges[1] >= gout.n_values_ranges[k]
        /\ \A k \in 2..Len(gout.n_values_ranges) :
               gout.n_values_ranges[k] = gout.n_values_ranges[k - 1] - 1

C2_Witness ==
    /\ GridOk /\ ~gin.alt
    /\ Len(gout.n_values_ranges) >= 3
    /\ gout.n_values_ranges[3] >= 2

\* C3: for either policy band_counts[i] is the number of grid points carrying
\* band i's payload value, and the counts add up to the number of grid points.
C3_CountsMatchPoints ==
    GridOk =>
        /\ \A k \in 1..Len(gout.n_values_ranges) :
               gout.n_values_ranges[k] = PointsWithPayload(ValPayloads(gin)[k])
        /\ SumSeq(gout.n_values_ranges) = Len(gout.ranges)
        /\ Len(gout.payloads) = Len(gout.ranges)

C3_Witness ==
    /\ GridOk /\ gin.alt
    /\ Len(gout.n_values_ranges) >= 3
    /\ gout.n_values_ranges[1] > gout.n_values_ranges[3]
    /\ gout.n_values_ranges[3] >= 2

\* upper_limit_box_tolerance * max_payload, the payload of the top band
UpperPayload == RMul(gin.upper, gin.max_payload)

\* C14 as stated: whenever payload_c equals or exceeds
\* upper_limit_box_tolerance * max_payload the breakpoint search fails and
\* grid_generation ends in an error, returning no grid.
C14_AsStated ==
    (gout.status # "none" /\ RGe(gin.payload_c, UpperPayload)) => gout.status = "IndexError"

\* C14 amended: whenever payload_c exceeds upper_limit_box_tolerance *
\* max_payload the breakpoint search fails and grid_generation ends in an
\* IndexError, returning no grid; when payload_c equals that value and there
\* are two bands or more, the search finds the top band and a grid is
\* returned.
C14_SearchFailsAboveTopBand ==
    gout.status # "none" =>
        /\ RGt(gin.payload_c, UpperPayload) => gout.status = "IndexError"
        /\ (gin.payload_c = UpperPayload /\ gin.n >= 2) =>
               gout.status = "ok"

C14_Witness ==
    /\ gout.status = "IndexError"
    /\ RGt(gin.payload_c, UpperPayload)
    /\ RLt(gin.payload_c, gin.max_payload)
    /\ gin.n >= 2

\* left_limit_box_tolerance * range(B) when that is at least range_step,
\* range_step otherwise
FlooredLeftLimit ==
    IF RGe(RMul(gin.left, gin.ra_b), gin.range_step) THEN RMul(gin.left, gin.ra_b)
    ELSE gin.range_step

\* C19 as stated: min_range is left_limit_box_tolerance * range(B) floored
\* at range_step, and under either policy no grid point has a range below
\* it.
C19_AsStated ==
    GridOk =>
        /\ MinRange(gin) = FlooredLeftLimit
        /\ \A k \in 1..Len(gout.ranges) : RGe(gout.ranges[k], FlooredLeftLimit)

\* max_range of step 2 (safety margin included) for the call under study
BandMaxRange == MaxRange(gin, ValPayloads(gin), RaCId(gin, ValPayloads(gin)))

\* the positions in the grid of the points of band b
BandPoints(b) ==
    LET s == SumSeq(SubSeq(gout.n_values_ranges, 1, b - 1))
    IN  (s + 1)..(s + gout.n_values_ranges[b])

\* C20 as stated: under either policy the range of every grid point is at
\* most the max range of step 2 (right_limit_box_tolerance times the
\* envelope's range at the band's payload) of the point's own band.
C20_AsStated ==
    GridOk =>
        \A b \in 1..Len(gout.n_values_ranges) :
            \A k \in BandPoints(b) : RLe(gout.ranges[k], BandMaxRange[b])

\* C21 as stated: in the flat point sequence of either policy the points of
\* band b are those at the positions counted by n_values_ranges, bands in
\* band-index order, each carrying band b's payload, and within a band each
\* range is greater than the range of the point before it.
C21_AsStated ==
    GridOk =>
        \A b \in 1..Len(gout.n_values_ranges) :
            \A k \in BandPoints(b) :
                /\ gout.payloads[k] = ValPayloads(gin)[b]
                /\ (k - 1) \in BandPoints(b) => RGt(gout.ranges[k], gout.ranges[k - 1])

\* C27: under the alternative policy the number of bands generated is 0 or
\* n_intervals_payloads, never in between; with 0 bands the grid has no
\* point.
C27_AltBandsNoneOrAll ==
    (GridOk /\ gin.alt) =>
        /\ Len(gout.n_values_ranges) \in {0, gin.n}
        /\ Len(gout.n_values_ranges) = 0 <=> Len(gout.ranges) = 0

\* all three bands generated although the bands get shorter
C27_Witness ==
    /\ GridOk /\ gin.alt
    /\ gin.n = 3
    /\ Len(gout.n_values_ranges) = 3
    /\ gout.n_values_ranges[3] < gout.n_values_ranges[2]
    /\ gout.n_values_ranges[2] < gout.n_values_ranges[1]

(***************************************************************************)
(* Python values and their text form, as used for the grid_ descriptor.    *)
(* An int is [t |-> "int", v |-> k]; a float is [t |-> "float", v |-> k]   *)
(* and stands for k / 10 (floats with one decimal digit); a bool is        *)
(* [t |-> "bool", v |-> b].  Text is a sequence of one-character strings.  *)
(***************************************************************************)
PyInt(k)   == [t |-> "int", v |-> k]
PyFloat(k) == [t |-> "float", v |-> k]
PyBool(b)  == [t |-> "bool", v |-> b]

\* the number a Python int or float stands for
PyNum(p) == IF p.t = "int" THEN RInt(p.v) ELSE Rat(p.v, 10)

Digits == <<"0", "1", "2", "3", "4", "5", "6", "7", "8", "9">>
DigitChar(d) == Digits[d + 1]
IsDigit(c) == \E d \in 0..9 : Digits[d + 1] = c
DigitVal(c) == CHOOSE d \in 0..9 : Digits[d + 1] = c

\* decimal digits of k >= 0
RECURSIVE IntStr(_)
IntStr(k) == IF k < 10 THEN <<DigitChar(k)>> ELSE Append(IntStr(k \div 10), DigitChar(k % 10))

\* str(value)
PyStr(p) ==
    CASE p.t = "int"   -> IntStr(p.v)
      [] p.t = "float" -> IntStr(p.v \div 10) \o <<".">> \o <<DigitChar(p.v % 10)>>
      [] p.t = "bool"  -> IF p.v THEN <<"T", "r", "u", "e">> ELSE <<"F", "a", "l", "s", "e">>

\* text without surrounding white space (int() and float() strip it)
RECURSIVE Strip(_)
Strip(str) ==
    IF str = <<>> THEN str
    ELSE IF str[Len(str)] \in {"\n", " "} THEN Strip(SubSeq(str, 1, Len(str) - 1))
    ELSE IF str[1] \in {"\n", " "} THEN Strip(Tail(str))
    ELSE str

AllDigits(str) == str # <<>> /\ \A k \in 1..Len(str) : IsDigit(str[k])

RECURSIVE DigitsVal(_)
DigitsVal(str) ==
    IF str = <<>> THEN 0 ELSE 10 * DigitsVal(SubSeq(str, 1, Len(str) - 1)) + DigitVal(str[Len(str)])

\* int(text): decimal digits only, anything else is a ValueError
ParseInt(str) ==
    IF AllDigits(Strip(str)) THEN PyInt(DigitsVal(Strip(str))) ELSE [t |-> "ValueError"]

\* float(text): digits, optionally followed by "." and one digit
ParseFloat(str) ==
    LET w   == Strip(str)
        dot == {k \in 1..Len(w) : w[k] = "."}
    IN  IF AllDigits(w) THEN PyFloat(10 * DigitsVal(w))
        ELSE IF /\ Cardinality(dot) = 1
                /\ dot = {Len(w) - 1}
                /\ AllDigits(SubSeq(w, 1, Len(w) - 2))
                /\ IsDigit(w[Len(w)])
             THEN PyFloat(10 * DigitsVal(SubSeq(w, 1, Len(w) - 2)) + DigitVal(w[Len(w)]))
        ELSE [t |-> "ValueError"]

\* text == "True\n"
ParseBool(str) == PyBool(str = <<"T", "r", "u", "e", "\n">>)

\* line.split(" ")[-1]: what follows the last blank
RECURSIVE LastField(_)
LastField(line) ==
    IF line = <<>> THEN <<>>
    ELSE IF line[Len(line)] = " " THEN <<>>
    ELSE Append(LastField(SubSeq(line, 1, Len(line) - 1)), line[Len(line)])

\* key + "= " + str(value) + "\n"; the key is kept as one element
DescLine(key, p) == <<key, "=", " ">> \o PyStr(p) \o <<"\n">>

\* the grid_ descriptor written for arguments a
DescriptorText(a) ==
    << <<"This is the file which contains the grid parameters for the results in file : ",
         "loop_results.txt", "\n">>,
       DescLine("n_intervals_payloads", a.n_intervals_payloads),
       DescLine("range_step", a.range_step),
       DescLine("upper_limit_box_tolerance", a.upper_limit_box_tolerance),
       DescLine("lower_limit_box_tolerance", a.lower_limit_box_tolerance),
       DescLine("right_limit_box_tolerance", a.right_limit_box_tolerance),
       DescLine("left_limit_box_tolerance", a.left_limit_box_tolerance),
       DescLine("alternative_grid", a.alternative_grid) >>

\* the seven fields payload_range_full parses from a descriptor
\* (lines = grid_file.readlines()[1:])
ParseDescriptor(text) ==
    LET lines == Tail(text)
    IN  [n_intervals_payloads      |-> ParseInt(LastField(lines[1])),
         range_step                |-> ParseInt(LastField(lines[2])),
         upper_limit_box_tolerance |-> ParseFloat(LastField(lines[3])),
         lower_limit_box_tolerance |-> ParseFloat(LastField(lines[4])),
         right_limit_box_tolerance |-> ParseFloat(LastField(lines[5])),
         left_limit_box_tolerance  |-> ParseFloat(LastField(lines[6])),
         alternative_grid          |-> ParseBool(LastField(lines[7]))]

ParseFailed(a) ==
    \E f \in DOMAIN a : a[f].t = "ValueError"

(***************************************************************************)
(* payload_range_loop_computation, one action per step of its body.        *)
(***************************************************************************)
MaxRuns == 2

\* largest n_intervals_payloads passed to a sweep
MaxSweepBands == 3

\* grid_ranges[i] * 10 ** 3 * 1.852 and the factor of the normalization
NmToM == 1852

\* the envelope breguet_leduc_points gives for the aircraft file of the sweep
SweepEnvelope ==
    [max_payload |-> RInt(10), payload_c |-> RInt(3),
     ra_b |-> RInt(6), ra_c |-> RInt(10), ra_d |-> RInt(12)]

\* the GridSpec arguments a caller may pass
SweepArgs ==
    { [n_intervals_payloads      |-> PyInt(n),
       range_step                |-> st,
       upper_limit_box_tolerance |-> PyFloat(9),
       lower_limit_box_tolerance |-> PyFloat(4),
       right_limit_box_tolerance |-> ri,
       left_limit_box_tolerance  |-> PyFloat(1),
       alternative_grid          |-> PyBool(al)] :
         n \in 1..MaxSweepBands, st \in {PyInt(5), PyInt(7), PyFloat(50)},
         ri \in {PyFloat(10)}, al \in BOOLEAN }

\* the call grid_generation(aircraft_file_path, ..., alternative_grid=...)
GridArgs(a) ==
    [max_payload |-> SweepEnvelope.max_payload, payload_c |-> SweepEnvelope.payload_c,
     ra_b |-> SweepEnvelope.ra_b, ra_c |-> SweepEnvelope.ra_c, ra_d |-> SweepEnvelope.ra_d,
     n          |-> a.n_intervals_payloads.v,
     range_step |-> PyNum(a.range_step),
     upper      |-> PyNum(a.upper_limit_box_tolerance),
     lower      |-> PyNum(a.lower_limit_box_tolerance),
     right      |-> PyNum(a.right_limit_box_tolerance),
     left       |-> PyNum(a.left_limit_box_tolerance),
     alt        |-> a.alternative_grid.v]

\* grid_generation tabulated for the arguments a sweep can pass
SweepGrids == [a \in SweepArgs |-> grid_generation(GridArgs(a))]

\* fig, grid, n_values_ranges = grid_generation(..., alternative_grid=...)
GridFor(a) == IF a \in SweepArgs THEN SweepGrids[a] ELSE grid_generation(GridArgs(a))

\* the mission simulator (external): fuel per segment for the saved inputs,
\* one fixed response per configuration
SimFuel(id, payload, range_m) ==
    [main_route |-> RAdd(RInt(100 * id), RDiv(range_m, RInt(NmToM))),
     takeoff    |-> RInt(3),
     taxi_in    |-> RInt(1),
     taxi_out   |-> RAdd(RInt(2 * id), payload)]

\* main_route_fuel + take_off_fuel + taxi_in_fuel + taxi_out_fuel
RawFuel(o) == RAdd(RAdd(RAdd(o.main_route, o.takeoff), o.taxi_in), o.taxi_out)

\* normalization without the distance unit factor
SpecificConsumptionNoFactor(fuel, payload, range) == RDiv(fuel, RMul(payload, range))

\* grid[2] / (grid[1] * grid[0] * 1.852 * 10 ** 3)
SpecificConsumption(fuel, payload, range) ==
    RDiv(fuel, RMul(RMul(payload, range), RInt(NmToM)))

NPoints == Len(grid.ranges)

\* the exception leaves payload_range_loop_computation
Raise(exc) ==
    /\ pc' = "idle"
    /\ outcome' = exc

\* lines 533-645: grid generation, generate_inputs, start of the loop.  A
\* killed sweep is the last sweep of a behaviour: what is explored after it
\* is the reconstruction from the files it left
SweepStart ==
    /\ pc = "idle"
    /\ runs < MaxRuns
    /\ outcome # "killed"
    /\ \E a \in SweepArgs :
        LET g == GridFor(a)
        IN  /\ args' = a
            /\ runs' = runs + 1
            /\ full' = [status |-> "none"]
            /\ atStart' = [table |-> table, desc |-> desc]
            /\ log' = <<>>
            /\ idx' = 0
            /\ IF g.status # "ok"
               THEN /\ Raise(g.status)
                    /\ grid' = [status |-> "none"]
                    /\ UNCHANGED workdir
               ELSE /\ grid' = g
                    /\ workdir' = [workdir EXCEPT !["mission_inputs.xml"] =
                                      [present |-> TRUE, seeded |-> TRUE]]
                    /\ pc' = IF Len(g.ranges) = 0 THEN "normalize" ELSE "save"
                    /\ outcome' = "running"
    /\ UNCHANGED <<table, desc, sim, gin, gout, env, seed, vn>>

\* lines 651-655 with the save left out
LoopSaveNotSaved ==
    /\ pc = "save"
    /\ log' = Append(log, [op |-> "save", point |-> idx + 1,
                           payload |-> grid.payloads[idx + 1],
                           range_m |-> RMul(grid.ranges[idx + 1], RInt(NmToM))])
    /\ pc' = "evaluate"
    /\ UNCHANGED <<args, grid, idx, workdir, table, desc, outcome, runs, full, atStart, sim,
                   gin, gout, env, seed, vn>>

\* lines 651-655: payload and range of point i written to mission_inputs.xml
LoopSave ==
    /\ pc = "save"
    /\ workdir' = [workdir EXCEPT !["mission_inputs.xml"] =
                      [present |-> TRUE, seeded |-> FALSE,
                       payload |-> grid.payloads[idx + 1],
                       range_m |-> RMul(grid.ranges[idx + 1], RInt(NmToM))]]
    /\ log' = Append(log, [op |-> "save", point |-> idx + 1,
                           payload |-> grid.payloads[idx + 1],
                           range_m |-> RMul(grid.ranges[idx + 1], RInt(NmToM))])
    /\ pc' = "evaluate"
    /\ UNCHANGED <<args, grid, idx, table, desc, outcome, runs, full, atStart, sim, gin, gout, env, seed, vn>>

\* what the simulator saw in mission_inputs.xml
SeenInputs ==
    IF workdir["mission_inputs.xml"].seeded
    THEN [payload |-> RInt(0), range_m |-> RInt(0)]
    ELSE [payload |-> workdir["mission_inputs.xml"].payload,
          range_m |-> workdir["mission_inputs.xml"].range_m]

\* line 659: oad.evaluate_problem returns, outputs complete or not
LoopEvaluate ==
    /\ pc = "evaluate"
    /\ \E complete \in BOOLEAN :
        workdir' = [workdir EXCEPT
            !["mission_outputs.xml"] =
                [present |-> TRUE, complete |-> complete,
                 fuel |-> SimFuel(sim, SeenInputs.payload, SeenInputs.range_m)],
            !["mission_study.csv"] = [present |-> TRUE]]
    /\ log' = Append(log, [op |-> "evaluate", point |-> idx + 1,
                           payload |-> SeenInputs.payload, range_m |-> SeenInputs.range_m])
    /\ pc' = "read"
    /\ UNCHANGED <<args, grid, idx, table, desc, outcome, runs, full, atStart, sim, gin, gout, env, seed, vn>>

\* line 659 with the exception swallowed: the loop goes on to the next point
LoopEvaluateFailsSwallowed ==
    /\ pc = "evaluate"
    /\ log' = Append(log, [op |-> "evaluate_failed", point |-> idx + 1])
    /\ idx' = idx + 1
    /\ pc' = IF idx + 1 < NPoints THEN "save" ELSE "normalize"
    /\ outcome' = "SimulationError"
    /\ UNCHANGED <<args, grid, workdir, table, desc, runs, full, atStart, sim, gin, gout, env, seed, vn>>

\* line 659: oad.evaluate_problem raises
LoopEvaluateFails ==
    /\ pc = "evaluate"
    /\ log' = Append(log, [op |-> "evaluate_failed", point |-> idx + 1])
    /\ Raise("SimulationError")
    /\ UNCHANGED <<args, grid, idx, workdir, table, desc, runs, full, atStart, sim, gin, gout, env, seed, vn>>

\* lines 660-669: the four fuel figures read and summed into grid[2, i]
LoopRead ==
    /\ pc = "read"
    /\ IF workdir["mission_outputs.xml"].complete
       THEN /\ grid' = [grid EXCEPT !.fuel[idx + 1] =
                           RawFuel(workdir["mission_outputs.xml"].fuel)]
            /\ log' = Append(log, [op |-> "read", point |-> idx + 1])
            /\ idx' = idx + 1
            /\ pc' = IF idx + 1 < NPoints THEN "save" ELSE "normalize"
            /\ UNCHANGED outcome
       ELSE /\ log' = Append(log, [op |-> "read_failed", point |-> idx + 1])
            /\ Raise("SimulationError")
            /\ UNCHANGED <<grid, idx>>
    /\ UNCHANGED <<args, workdir, table, desc, runs, full, atStart, sim, gin, gout, env, seed, vn>>

\* line 683: specific consumption of every point
Normalize ==
    /\ pc = "normalize"
    /\ grid' = [grid EXCEPT !.fuel =
                   [k \in 1..NPoints |->
                       SpecificConsumption(grid.fuel[k], grid.payloads[k], grid.ranges[k])]]
    /\ pc' = "savetxt"
    /\ UNCHANGED <<args, idx, workdir, table, desc, log, outcome, runs, full, atStart, sim,
                   gin, gout, env, seed, vn>>

\* line 684 with grid saved instead of grid.T read back row-wise: payload
\* and range columns exchanged
SaveTxtPayloadFirst ==
    /\ pc = "savetxt"
    /\ table' = [present |-> TRUE,
                 rows    |-> [k \in 1..NPoints |->
                                 <<grid.payloads[k], grid.ranges[k], grid.fuel[k]>>],
                 by      |-> runs,
                 grid    |-> grid,
                 partial |-> FALSE]
    /\ pc' = "remove_inputs"
    /\ UNCHANGED <<args, grid, idx, workdir, desc, log, outcome, runs, full, atStart, sim,
                   gin, gout, env, seed, vn>>

\* line 684: np.savetxt(..., grid.T): one row per point.  by and grid record
\* the run that wrote the file (history, not file content)
SaveTxt ==
    /\ pc = "savetxt"
    /\ table' = [present |-> TRUE,
                 rows    |-> [k \in 1..NPoints |->
                                 <<grid.ranges[k], grid.payloads[k], grid.fuel[k]>>],
                 by      |-> runs,
                 grid    |-> grid,
                 partial |-> FALSE]
    /\ pc' = "remove_inputs"
    /\ UNCHANGED <<args, grid, idx, workdir, desc, log, outcome, runs, full, atStart, sim,
                   gin, gout, env, seed, vn>>

\* the process is gone, and its locals with it
ProcessKilled ==
    /\ pc' = "idle"
    /\ outcome' = "killed"
    /\ grid' = [status |-> "none"]
    /\ idx' = 0
    /\ log' = <<>>

\* line 684 cut short: the process is killed after np.savetxt has opened
\* (and so emptied) the file and written the rows of the first k points
SaveTxtKilled ==
    /\ pc = "savetxt"
    /\ \E k \in 0..(NPoints - 1) :
        table' = [present |-> TRUE,
                  rows    |-> [j \in 1..k |->
                                  <<grid.ranges[j], grid.payloads[j], grid.fuel[j]>>],
                  by      |-> runs,
                  grid    |-> grid,
                  partial |-> TRUE]
    /\ ProcessKilled
    /\ UNCHANGED <<args, workdir, desc, runs, full, atStart, sim, gin, gout, env, seed, vn>>

\* lines 533-706: the process is killed at any other moment of the sweep;
\* the files stay as they are
Killed ==
    /\ pc # "idle"
    /\ ProcessKilled
    /\ UNCHANGED <<args, workdir, table, desc, runs, full, atStart, sim, gin, gout, env, seed, vn>>

\* os.remove(path): FileNotFoundError when the file is not there
Remove(file, next) ==
    /\ IF workdir[file].present
       THEN /\ workdir' = [workdir EXCEPT ![file] = Absent]
            /\ pc' = next
            /\ UNCHANGED outcome
       ELSE /\ Raise("FileNotFoundError")
            /\ UNCHANGED workdir
    /\ UNCHANGED <<args, grid, idx, table, desc, log, runs, full, atStart, sim, gin, gout, env, seed, vn>>

\* line 689 left out: mission_study.csv stays in the work directory
RemoveStudyKept ==
    /\ pc = "remove_study"
    /\ pc' = "write_descriptor"
    /\ UNCHANGED <<args, grid, idx, workdir, table, desc, log, outcome, runs, full, atStart, sim,
                   gin, gout, env, seed, vn>>

\* lines 687-689
RemoveInputs  == pc = "remove_inputs"  /\ Remove("mission_inputs.xml", "remove_outputs")
RemoveOutputs == pc = "remove_outputs" /\ Remove("mission_outputs.xml", "remove_study")
RemoveStudy   == pc = "remove_study"   /\ Remove("mission_study.csv", "write_descriptor")

\* lines 692-706: the descriptor written, then the function returns
WriteDescriptor ==
    /\ pc = "write_descriptor"
    /\ desc' = [present |-> TRUE, text |-> DescriptorText(args), by |-> runs, args |-> args]
    /\ pc' = "idle"
    /\ outcome' = "returned"
    /\ UNCHANGED <<args, grid, idx, workdir, table, log, runs, full, atStart, sim, gin, gout, env, seed, vn>>

(***************************************************************************)
(* Specification SpecSeed: lines 559-639 of payload_range_loop_computation *)
(* in detail, for aircraft files that lack some of the mission fields.     *)
(* (SweepStart takes these lines in one step for an aircraft file that has *)
(* them all.)  A field of the aircraft file is Absent or a value with its  *)
(* units; thrust rates are in hundredths.                                  *)
(***************************************************************************)
ThrustRateFields ==
    {"climb:thrust_rate", "initial_climb:thrust_rate", "descent:thrust_rate",
     "taxi:thrust_rate"}
ReserveFields == {"diversion:distance", "holding:duration"}
TakeoffFields == {"takeoff:V2", "takeoff:altitude", "takeoff:fuel"}
TaxiInFields  == {"taxi_in:duration"}
TaxiOutFields == {"taxi_out:duration", "taxi_out:thrust_rate"}

MissionFields ==
    ThrustRateFields \cup ReserveFields \cup TakeoffFields \cup TaxiInFields
        \cup TaxiOutFields

Value(v, units) == [present |-> TRUE, value |-> v, units |-> units]

\* what an aircraft file holds for a field it has
SourceValue(f) ==
    CASE f = "climb:thrust_rate"         -> Value(90, "-")
      [] f = "initial_climb:thrust_rate" -> Value(95, "-")
      [] f = "descent:thrust_rate"       -> Value(20, "-")
      [] f = "taxi:thrust_rate"          -> Value(25, "-")
      [] f = "diversion:distance"        -> Value(100, "NM")
      [] f = "holding:duration"          -> Value(30, "min")
      [] f = "takeoff:V2"                -> Value(80, "m/s")
      [] f = "takeoff:altitude"          -> Value(0, "m")
      [] f = "takeoff:fuel"              -> Value(150, "kg")
      [] f = "taxi_in:duration"          -> Value(10, "min")
      [] f = "taxi_out:duration"         -> Value(8, "min")
      [] f = "taxi_out:thrust_rate"      -> Value(25, "-")

AircraftFiles ==
    { [f \in MissionFields |-> IF f \in missing THEN Absent ELSE SourceValue(f)] :
        missing \in SUBSET MissionFields }

\* openmdao convert_units for the unit pairs of the aircraft files
convert_units(v, from, to) ==
    CASE from = to                  -> v
      [] from = "NM" /\ to = "m"    -> v * NmToM
      [] from = "min" /\ to = "s"   -> v * 60

\* the values of the except branches (lines 578-581, 598-602, 628-629)
DefaultValue(f) ==
    CASE f = "climb:thrust_rate"         -> Value(93, "-")
      [] f = "initial_climb:thrust_rate" -> Value(100, "-")
      [] f = "descent:thrust_rate"       -> Value(18, "-")
      [] f = "taxi:thrust_rate"          -> Value(30, "-")
      [] f = "diversion:distance"        -> Value(370400, "m")
      [] f = "holding:duration"          -> Value(2700, "s")
      [] f = "taxi_in:duration"          -> Value(300, "s")

\* the unit each op_mission field is converted to
TargetUnits(f) ==
    CASE f \in {"diversion:distance", "takeoff:altitude"}                 -> "m"
      [] f \in {"holding:duration", "taxi_in:duration", "taxi_out:duration"} -> "s"
      [] f = "takeoff:V2"                                                  -> "m/s"
      [] OTHER                                                             -> seed.aircraft[f].units

\* input_file[...] read and converted
Converted(f) ==
    Value(convert_units(seed.aircraft[f].value, seed.aircraft[f].units, TargetUnits(f)),
          TargetUnits(f))

\* a field of input_file_mission as oad.generate_inputs left it
Generated == Value(0, "as generated")

HasAll(fields) == \A f \in fields : seed.aircraft[f].present

SeedInit ==
    /\ \E a \in AircraftFiles :
        seed = [pc |-> "thrust_rates", aircraft |-> a,
                mission |-> [f \in MissionFields |-> Generated],
                printed |-> <<>>]
    /\ SweepIdle
    /\ sim = 1
    /\ gin = [status |-> "none"]
    /\ gout = [status |-> "none"]
    /\ env = [pc |-> "none"]
    /\ vn = [pc |-> "none"]

SeedUnchanged ==
    UNCHANGED <<gin, gout, args, pc, grid, idx, workdir, table, desc, log, outcome, runs, full,
                atStart, sim, env, vn>>

\* a try block whose except branch sets the defaults of all its fields
SeedOrDefault(fields, next) ==
    seed' = [seed EXCEPT
                !.pc = next,
                !.mission = [f \in MissionFields |->
                                IF f \notin fields THEN @[f]
                                ELSE IF HasAll(fields) THEN Converted(f)
                                ELSE DefaultValue(f)]]

\* statements outside any try block: a missing field ends the function
SeedOrRaise(fields, next) ==
    seed' = IF HasAll(fields)
            THEN [seed EXCEPT !.pc = next,
                              !.mission = [f \in MissionFields |->
                                              IF f \in fields THEN Converted(f) ELSE @[f]]]
            ELSE [seed EXCEPT !.pc = "raised"]

\* lines 563-581
SeedThrustRates ==
    /\ seed.pc = "thrust_rates"
    /\ SeedOrDefault(ThrustRateFields, "reserves")
    /\ SeedUnchanged

\* lines 584-602
SeedReserves ==
    /\ seed.pc = "reserves"
    /\ SeedOrDefault(ReserveFields, "takeoff")
    /\ SeedUnchanged

\* lines 604-618
SeedTakeoff ==
    /\ seed.pc = "takeoff"
    /\ SeedOrRaise(TakeoffFields, "taxi_in")
    /\ SeedUnchanged

\* lines 620-629
SeedTaxiIn ==
    /\ seed.pc = "taxi_in"
    /\ SeedOrDefault(TaxiInFields, "taxi_out")
    /\ SeedUnchanged

\* lines 631-639
SeedTaxiOut ==
    /\ seed.pc = "taxi_out"
    /\ SeedOrRaise(TaxiOutFields, "loop")
    /\ SeedUnchanged

\* lines 647-679 for the first grid point: the only thing the function prints
FirstPointPrinted ==
    /\ seed.pc = "loop"
    /\ seed' = [seed EXCEPT !.pc = "looping",
                            !.printed = Append(@, [text |-> "Computation : ", i |-> 0])]
    /\ SeedUnchanged

SeedNext ==
    \/ SeedThrustRates
    \/ SeedReserves
    \/ SeedTakeoff
    \/ SeedTaxiIn
    \/ SeedTaxiOut
    \/ FirstPointPrinted

SpecSeed == SeedInit /\ [][SeedNext]_vars

\* the fields the aircraft file lacks
Lacking == {f \in MissionFields : ~seed.aircraft[f].present}

\* a default stands in input_file_mission for a field the aircraft file lacks
DefaultSubstituted ==
    \E f \in Lacking \cap (ThrustRateFields \cup ReserveFields \cup TaxiInFields) :
        seed.mission[f] = DefaultValue(f)

\* C17 as stated: when a default was substituted for a field the aircraft
\* file lacks, what the function has printed by the time it evaluates the
\* first grid point includes a message about the defaults.
C17_AsStated ==
    (seed.pc = "looping" /\ DefaultSubstituted) =>
        \E k \in 1..Len(seed.printed) : seed.printed[k].text # "Computation : "

\* C18 as stated: when the aircraft file lacks any of the thrust rates, the
\* diversion distance, the holding duration or the takeoff speed, altitude
\* and fuel (and nothing else), the seeding does not fail and every lacking
\* field has got a numeric default.
C18_AsStated ==
    (/\ seed.pc \in {"raised", "looping"}
     /\ Lacking # {}
     /\ Lacking \subseteq (ThrustRateFields \cup ReserveFields \cup TakeoffFields)) =>
        /\ seed.pc = "looping"
        /\ \A f \in Lacking : seed.mission[f] # Generated /\ seed.mission[f].value \in Nat

\* C26 as stated: a thrust rate (climb, initial climb, descent, taxi) that
\* the aircraft file has is the value the mission is simulated with, and a
\* default stands for a thrust rate only when the file lacks that field.
C26_AsStated ==
    seed.pc = "looping" =>
        \A f \in ThrustRateFields :
            /\ seed.aircraft[f].present => seed.mission[f] = Converted(f)
            /\ seed.mission[f] = DefaultValue(f) => f \in Lacking

(***************************************************************************)
(* payload_range_full                                                      *)
(***************************************************************************)
Min(a, b) == IF a < b THEN a ELSE b

Null == [null |-> TRUE]
Cell(v) == [null |-> FALSE, v |-> v]

\* np.loadtxt: a table of two or more rows is 2-D; a single row or an empty
\* file is squeezed to 1-D
LoadTxtNdim(rows) == IF Len(rows) >= 2 THEN 2 ELSE 1

RMinOf(S) == CHOOSE a \in S : \A b \in S : RLe(a, b)
RMaxOf(S) == CHOOSE a \in S : \A b \in S : RLe(b, a)

\* row i of z before the slice assignment: [None] * n_values_ranges[0]
EmptyRow(nvr) == [j \in 1..nvr[1] |-> Null]

\* z[i][0 : n_values_ranges[i]] = results[2, s : s + n_values_ranges[i]]
\* with s = sum(n_values_ranges[0:i]); a Python slice assignment
ZRow(rows, nvr, i) ==
    LET s     == SumSeq(SubSeq(nvr, 1, i - 1))
        last  == Min(s + nvr[i], Len(rows))
        taken == [j \in 1..(IF last > s THEN last - s ELSE 0) |-> Cell(rows[s + j][3])]
        kept  == SubSeq(EmptyRow(nvr), Min(nvr[i], nvr[1]) + 1, nvr[1])
    IN  taken \o kept

\* lines 790-803 with x taken from the last band instead of band 0
SurfaceXOfLastBand(rows, nvr, n) ==
    LET s == SumSeq(SubSeq(nvr, 1, Len(nvr) - 1))
    IN  [status |-> "surface",
         x |-> [j \in 1..Min(nvr[Len(nvr)], Len(rows) - s) |-> rows[s + j][1]],
         y |-> Linspace(RMinOf({rows[k][2] : k \in 1..Len(rows)}),
                        RMaxOf({rows[k][2] : k \in 1..Len(rows)}), n),
         z |-> [i \in 1..n |-> ZRow(rows, nvr, i)],
         n_values_ranges |-> nvr]

\* lines 790-803: x, y, z from the loaded table
Surface(rows, nvr, n) ==
    [status |-> "surface",
     x |-> [j \in 1..Min(nvr[1], Len(rows)) |-> rows[j][1]],
     y |-> Linspace(RMinOf({rows[k][2] : k \in 1..Len(rows)}),
                    RMaxOf({rows[k][2] : k \in 1..Len(rows)}), n),
     z |-> [i \in 1..n |-> ZRow(rows, nvr, i)],
     n_values_ranges |-> nvr]

\* the whole function: what it gives for descriptor file d and table file t
PayloadRangeFull(d, t) ==
    IF ~d.present THEN [status |-> "FileNotFoundError"]
    ELSE LET a == ParseDescriptor(d.text)
         IN  IF ParseFailed(a) THEN [status |-> "ValueError"]
             ELSE LET g == GridFor(a)
                  IN  IF g.status # "ok" THEN [status |-> g.status]
                      ELSE LET nvr == g.n_values_ranges
                               n   == IF a.alternative_grid.v THEN Len(nvr)
                                      ELSE a.n_intervals_payloads.v
                           IN  IF ~t.present THEN [status |-> "message"]
                               ELSE IF LoadTxtNdim(t.rows) # 2 THEN [status |-> "IndexError"]
                               ELSE IF Len(nvr) = 0 THEN [status |-> "IndexError"]
                               ELSE Surface(t.rows, nvr, n)

PayloadRangeFullCall ==
    /\ pc = "idle"
    /\ full.status = "none"
    /\ full' = PayloadRangeFull(desc, table)
    /\ UNCHANGED <<args, pc, grid, idx, workdir, table, desc, log, outcome, runs, atStart, sim,
                   gin, gout, env, seed, vn>>

(***************************************************************************)
(* Specification SpecSweep: sweeps and reconstructions under one save name *)
(***************************************************************************)
SweepInit ==
    /\ SweepIdle
    /\ sim \in {1, 2}
    /\ gin = [status |-> "none"]
    /\ gout = [status |-> "none"]
    /\ env = [pc |-> "none"]
    /\ seed = [pc |-> "none"]
    /\ vn = [pc |-> "none"]

SweepNext ==
    \/ SweepStart
    \/ LoopSave
    \/ LoopEvaluate
    \/ LoopEvaluateFails
    \/ LoopRead
    \/ Normalize
    \/ SaveTxt
    \/ SaveTxtKilled
    \/ Killed
    \/ RemoveInputs
    \/ RemoveOutputs
    \/ RemoveStudy
    \/ WriteDescriptor
    \/ PayloadRangeFullCall

SpecSweep == SweepInit /\ [][SweepNext]_vars

(***************************************************************************)
(* Claims about the sweep and the reconstruction (SpecSweep)               *)
(***************************************************************************)
\* C1 as stated: payload_range_full called for a save name never swept
\* (neither file exists) reports "run the sweep first" and raises nothing.
C1_AsStated ==
    (full.status # "none" /\ ~table.present /\ ~desc.present) => full.status = "message"

\* two Python values that compare equal
SameValue(p, q) ==
    IF p.t = "bool" \/ q.t = "bool" THEN p = q ELSE PyNum(p) = PyNum(q)

\* C5 as stated: the descriptor a sweep wrote is parsed back into the same
\* seven field values, and the grid regenerated from them is the grid the
\* sweep used.
C5_AsStated ==
    desc.present =>
        LET parsed == ParseDescriptor(desc.text)
        IN  /\ ~ParseFailed(parsed)
            /\ \A f \in DOMAIN parsed : SameValue(parsed[f], desc.args[f])
            /\ GridFor(parsed) = GridFor(desc.args)

\* number of non-null cells of a row of z
Populated(row) == Cardinality({j \in 1..Len(row) : ~row[j].null})

\* the non-null cells of a row come first
NullsTrail(row) == \A j \in 1..Len(row) : row[j].null => \A m \in j..Len(row) : row[m].null

\* table and descriptor on disk were written by the same completed sweep
\* and the descriptor can be parsed
ArtifactOnDisk ==
    /\ table.present /\ desc.present /\ table.by = desc.by
    /\ ~ParseFailed(ParseDescriptor(desc.text))

\* C6 as stated: for an artifact with N payload bands payload_range_full
\* builds a y-axis of length N and a z-matrix of N rows, row i holding
\* band_counts[i] populated cells followed by nulls only.
C6_AsStated ==
    (full.status # "none" /\ ArtifactOnDisk) =>
        LET nvr == table.grid.n_values_ranges
        IN  /\ full.status = "surface"
            /\ Len(full.y) = Len(nvr)
            /\ Len(full.z) = Len(nvr)
            /\ \A i \in 1..Len(nvr) :
                   /\ Populated(full.z[i]) = nvr[i]
                   /\ NullsTrail(full.z[i])

\* C8: when the simulation of a grid point fails, the failure leaves the
\* sweep at once (nothing runs after it, no later point is simulated) and
\* table and descriptor are as they were when the sweep started.
C8_FailedSweepWritesNothing ==
    outcome = "SimulationError" =>
        /\ pc = "idle"
        /\ table = atStart.table
        /\ desc = atStart.desc
        /\ log # <<>>
        /\ log[Len(log)].op \in {"evaluate_failed", "read_failed"}
        /\ \A k \in 1..(Len(log) - 1) : log[k].op \in {"save", "evaluate", "read"}

C8_Witness ==
    /\ outcome = "SimulationError"
    /\ atStart.table.present
    /\ idx >= 1
    /\ idx < NPoints - 1

\* the simulator traffic of a sweep over grid g: per point, in generation
\* order, inputs saved, simulator invoked on those inputs, outputs read
ExpectedLog(g) ==
    Flatten([k \in 1..Len(g.ranges) |->
        << [op |-> "save", point |-> k, payload |-> g.payloads[k],
            range_m |-> RMul(g.ranges[k], RInt(NmToM))],
           [op |-> "evaluate", point |-> k, payload |-> g.payloads[k],
            range_m |-> RMul(g.ranges[k], RInt(NmToM))],
           [op |-> "read", point |-> k] >>])

IsPrefix(a, b) == Len(a) <= Len(b) /\ a = SubSeq(b, 1, Len(a))

\* C9: in a sweep that completes the simulator is invoked exactly once per
\* grid point, in generation order, one at a time: save i, invoke i, read i,
\* then save i + 1.
C9_OneAtATimeInOrder ==
    /\ outcome = "running" => IsPrefix(log, ExpectedLog(grid))
    /\ outcome = "returned" => log = ExpectedLog(grid)

C9_Witness ==
    /\ outcome = "returned"
    /\ NPoints >= 3
    /\ grid.payloads[1] # grid.payloads[NPoints]

\* C10: normalization runs only once the raw fuel of every point is
\* collected, and every persisted specific consumption is the sum of the
\* four fuel components of its point over payload * range * 1852.
C10_NormalizedAfterAllCollected ==
    /\ pc \in {"normalize", "savetxt"} =>
           /\ idx = NPoints
           /\ Cardinality({k \in 1..Len(log) : log[k].op = "read"}) = NPoints
    /\ table.present =>
           \A k \in 1..Len(table.rows) :
               LET range   == table.rows[k][1]
                   payload == table.rows[k][2]
                   o       == SimFuel(sim, payload, RMul(range, RInt(NmToM)))
               IN  table.rows[k][3] =
                       RDiv(RAdd(RAdd(o.main_route, o.takeoff), RAdd(o.taxi_in, o.taxi_out)),
                            RMul(RMul(payload, range), RInt(NmToM)))

C10_Witness ==
    /\ table.present
    /\ Len(table.rows) >= 3
    /\ table.rows[1][3] # table.rows[2][3]

\* the value written on line k of the descriptor (line 0 is the title)
DescValue(k) == Strip(LastField(desc.text[k + 1]))

\* C11: when payload_range_loop_computation has returned normally the table
\* holds one row per point of the grid generated from its arguments, in
\* generation order, with that grid's ranges and payloads in columns 0 and
\* 1, and the descriptor holds the seven GridSpec values the call was given.
C11_TableAndDescriptorOfTheRun ==
    outcome = "returned" =>
        LET g == GridFor(args)
        IN  /\ table.present /\ desc.present
            /\ Len(table.rows) = Len(g.ranges)
            /\ \A k \in 1..Len(table.rows) :
                   /\ Len(table.rows[k]) = 3
                   /\ table.rows[k][1] = g.ranges[k]
                   /\ table.rows[k][2] = g.payloads[k]
            /\ Len(desc.text) = 8
            /\ DescValue(1) = PyStr(args.n_intervals_payloads)
            /\ DescValue(2) = PyStr(args.range_step)
            /\ DescValue(3) = PyStr(args.upper_limit_box_tolerance)
            /\ DescValue(4) = PyStr(args.lower_limit_box_tolerance)
            /\ DescValue(5) = PyStr(args.right_limit_box_tolerance)
            /\ DescValue(6) = PyStr(args.left_limit_box_tolerance)
            /\ DescValue(7) = PyStr(args.alternative_grid)

C11_Witness ==
    /\ outcome = "returned"
    /\ runs = 2
    /\ atStart.desc.present
    /\ atStart.desc.text # desc.text
    /\ Len(table.rows) >= 3
    /\ table.rows[1][1] # table.rows[1][2]

NoScratchFile == \A f \in ScratchFiles : ~workdir[f].present

\* C12: once a sweep has run to its end none of mission_inputs.xml,
\* mission_outputs.xml and mission_study.csv is in the work directory, and
\* it stays so until the next sweep starts: a sweep that starts after a
\* full sweep finds no scratch file.
C12_ScratchRemovedAfterFullSweep ==
    /\ [](outcome = "returned" => NoScratchFile)
    /\ [][(outcome = "returned" /\ runs' = runs + 1) => NoScratchFile]_vars

\* a second full sweep, started after a first full sweep
C12_Witness ==
    /\ runs = 2
    /\ outcome = "returned"
    /\ atStart.desc.present
    /\ NoScratchFile

\* C13 as stated: after a sweep was killed and left the table absent or
\* partly written, payload_range_full builds no contour surface.
C13_AsStated ==
    (full.status # "none" /\ outcome = "killed" /\ (~table.present \/ table.partial)) =>
        full.status # "surface"

\* the samples the alternative policy gives band b for the arguments of
\* the sweep
AltBandSamples(b) ==
    LET g            == GridArgs(args)
        val_payloads == ValPayloads(g)
        max_range    == MaxRange(g, val_payloads, RaCId(g, val_payloads))
    IN  AltRangeAdd(g, max_range[b], MinRange(g), DeltaX(g, val_payloads))

SurfaceOfOneSweep ==
    /\ full.status = "surface"
    /\ table.by = desc.by
    /\ ~table.partial

\* the band counts of the grid regenerated from the descriptor
DescCounts == GridFor(desc.args).n_values_ranges

\* position in the table of the point before the first point of band b
BandOffset(b) == SumSeq(SubSeq(DescCounts, 1, b - 1))

\* the stored ranges of band b
BandRanges(b) == [j \in 1..DescCounts[b] |-> table.rows[BandOffset(b) + j][1]]

\* the bands that have no more samples than any other
FewestBands ==
    {b \in 1..Len(DescCounts) : \A c \in 1..Len(DescCounts) : DescCounts[b] <= DescCounts[c]}

\* C24 as stated: the x-axis is the sequence of range samples of the band
\* with the fewest samples, the y-axis is the band payload values and cell
\* (i, j) of z holds the stored consumption of the j-th point of band i.
C24_AsStated ==
    SurfaceOfOneSweep =>
        /\ \E b \in FewestBands : full.x = BandRanges(b)
        /\ Len(full.y) = Len(DescCounts)
        /\ \A b \in 1..Len(DescCounts) :
               DescCounts[b] >= 1 => full.y[b] = table.rows[BandOffset(b) + 1][2]
        /\ \A i \in 1..Len(DescCounts) : \A j \in 1..DescCounts[i] :
               full.z[i][j] = Cell(table.rows[BandOffset(i) + j][3])

\* the payloads stored in the table
StoredPayloads == {table.rows[k][2] : k \in 1..Len(table.rows)}

\* C24 amended: the x-axis is the sequence of range samples of band 0,
\* which no band exceeds in number of samples; the y-axis is one value per
\* band, evenly spaced from the smallest to the largest stored payload,
\* which are the band payload values when every band has a sample; cell
\* (i, j) of z holds the stored consumption of the j-th point of band i,
\* and every row of z is as wide as the x-axis.
C24_XAxisIsBandZero ==
    SurfaceOfOneSweep =>
        /\ full.x = BandRanges(1)
        /\ \A b \in 1..Len(DescCounts) : DescCounts[b] <= DescCounts[1]
        /\ full.y = Linspace(RMinOf(StoredPayloads), RMaxOf(StoredPayloads), Len(DescCounts))
        /\ (\A b \in 1..Len(DescCounts) : DescCounts[b] >= 1) =>
               \A b \in 1..Len(DescCounts) : full.y[b] = table.rows[BandOffset(b) + 1][2]
        /\ Len(full.z) = Len(DescCounts)
        /\ \A i \in 1..Len(DescCounts) :
               /\ Len(full.z[i]) = Len(full.x)
               /\ \A j \in 1..DescCounts[i] :
                      full.z[i][j] = Cell(table.rows[BandOffset(i) + j][3])

C24_Witness ==
    /\ SurfaceOfOneSweep
    /\ Len(DescCounts) = 2
    /\ DescCounts[2] < DescCounts[1]
    /\ DescCounts[2] >= 2
    /\ full.y[1] # full.y[2]
    /\ full.z[2][1] # full.z[1][1]
    /\ full.z[2][Len(full.x)] = Null

\* C25 as stated: whatever sweeps ran under the save name, failed ones
\* included, a results table and a grid_ descriptor that are both on disk
\* come from the same run: the descriptor's GridSpec is the one of the grid
\* whose points are the table's rows.
C25_AsStated ==
    (pc = "idle" /\ table.present /\ desc.present) =>
        /\ table.by = desc.by
        /\ GridFor(desc.args).status = "ok"
        /\ Len(table.rows) = Len(GridFor(desc.args).ranges)
        /\ \A k \in 1..Len(table.rows) :
               /\ table.rows[k][1] = GridFor(desc.args).ranges[k]
               /\ table.rows[k][2] = GridFor(desc.args).payloads[k]

(***************************************************************************)
(* breguet_leduc_formula and breguet_leduc_points.  Masses in kg, ranges   *)
(* in NM.  The range equation ra = k_ra(ra) * coeff * ln(mass_in/mass_out) *)
(* is transcendental; its root is modelled by Root, which keeps what the   *)
(* root has for every coeff > 0: it is zero for equal masses, has the sign *)
(* of ln(mass_in / mass_out) and grows with mass_in / mass_out.  A scipy   *)
(* fsolve call that does not converge gives its last iterate and ier # 1   *)
(* (a warning, no exception).                                              *)
(***************************************************************************)
\* coeff of line 160, from glide ratio, speed and sfc of the aircraft file
CoeffValues == {10, 40}

EnvelopeInputs ==
    { [mtow |-> 70000, owe |-> 38000, mfw |-> mf, max_payload |-> mp,
       sizing_payload |-> 9000, sizing_range |-> sr, coeff |-> c] :
         mf \in {18000, 26000, 30000, 80000}, mp \in {12000, 20000, 40000},
         sr \in {15, 30}, c \in CoeffValues }

\* the root of non_linear_function for masses that have one
Root(mass_in, mass_out, constant_coeff) ==
    Rat(constant_coeff * (mass_in - mass_out), mass_out)

\* sol = fsolve(non_linear_function, x0): the values it may return, each with
\* the solver's ier flag.  A mass ratio that is not positive has no logarithm
\* and the solve cannot converge; for a ratio of one or more it converges;
\* for a ratio below one (root below zero, far from x0) it may do either.
Fsolve(mass_in, mass_out, constant_coeff, x0) ==
    IF mass_out <= 0 \/ mass_in <= 0 THEN {[x |-> RInt(x0), ier |-> 5]}
    ELSE IF mass_in >= mass_out
         THEN {[x |-> Root(mass_in, mass_out, constant_coeff), ier |-> 1]}
    ELSE {[x |-> Root(mass_in, mass_out, constant_coeff), ier |-> 1],
          [x |-> RInt(x0), ier |-> 5]}

\* breguet_leduc_formula returns sol whatever ier is; ier is kept beside it
\* to tell what was returned
breguet_leduc_formula(mass_in, mass_out, constant_coeff, x0) ==
    Fsolve(mass_in, mass_out, constant_coeff, x0)

EnvInit ==
    /\ \E p \in EnvelopeInputs : env = [pc |-> "point_c", p |-> p, ier |-> <<>>]
    /\ SweepIdle
    /\ sim = 1
    /\ gin = [status |-> "none"]
    /\ gout = [status |-> "none"]
    /\ seed = [pc |-> "none"]
    /\ vn = [pc |-> "none"]

EnvUnchanged ==
    UNCHANGED <<gin, gout, args, pc, grid, idx, workdir, table, desc, log, outcome, runs, full,
                atStart, sim, seed, vn>>

\* lines 165-169: point C
PointC ==
    /\ env.pc = "point_c"
    /\ \E sol \in breguet_leduc_formula(env.p.mtow, env.p.mtow - env.p.mfw, env.p.coeff,
                                        env.p.sizing_range * 10) :
        env' = [pc |-> "point_b", p |-> env.p, ier |-> <<sol.ier>>,
                payload_c |-> env.p.mtow - env.p.mfw - env.p.owe,
                ra_c |-> sol.x]
    /\ EnvUnchanged

\* line 173: ra_b interpolated between the design point and point C
InterpolatedRaB(e) ==
    RAdd(RDiv(RMul(RSub(RInt(e.p.sizing_range), e.ra_c),
                   RInt(e.p.max_payload - e.payload_c)),
              RInt(e.p.sizing_payload - e.payload_c)),
         e.ra_c)

\* lines 172-173 with the test of line 174 left out: the interpolated value
\* is kept whatever its sign
PointBInterpolatedAlways ==
    /\ env.pc = "point_b"
    /\ env' = [env EXCEPT !.pc = "point_d"] @@ [ra_b |-> InterpolatedRaB(env)]
    /\ EnvUnchanged

\* lines 172-174: the interpolated value is kept when it is not negative
PointBInterpolated ==
    /\ env.pc = "point_b"
    /\ ~RLt(InterpolatedRaB(env), RInt(0))
    /\ env' = [env EXCEPT !.pc = "point_d"] @@ [ra_b |-> InterpolatedRaB(env)]
    /\ EnvUnchanged

\* lines 174-177 with the masses of point C in place of those of point B
PointBSolvedForC ==
    /\ env.pc = "point_b"
    /\ RLt(InterpolatedRaB(env), RInt(0))
    /\ \E sol \in breguet_leduc_formula(env.p.mtow, env.p.mtow - env.p.mfw,
                                        env.p.coeff, env.p.sizing_range * 10) :
        env' = [env EXCEPT !.pc = "point_d", !.ier = Append(@, sol.ier)]
               @@ [ra_b |-> sol.x]
    /\ EnvUnchanged

\* lines 174-177: a negative interpolated value, the equation solved for B
PointBSolved ==
    /\ env.pc = "point_b"
    /\ RLt(InterpolatedRaB(env), RInt(0))
    /\ \E sol \in breguet_leduc_formula(env.p.mtow, env.p.owe + env.p.max_payload,
                                        env.p.coeff, env.p.sizing_range * 10) :
        env' = [env EXCEPT !.pc = "point_d", !.ier = Append(@, sol.ier)]
               @@ [ra_b |-> sol.x]
    /\ EnvUnchanged

\* BL_ranges and BL_payloads of lines 183-184 for ranges ra_b, ra_c, ra_d
Returned(e, ra_b, ra_c, ra_d) ==
    [status |-> "ok",
     BL_ranges |-> <<RInt(0), ra_b, ra_c, ra_d, RInt(e.p.sizing_range)>>,
     BL_payloads |-> <<Rat(e.p.max_payload, 1000),
                       Rat(e.p.max_payload, 1000),
                       Rat(e.payload_c, 1000),
                       Rat(0, 1000),
                       Rat(e.p.sizing_payload, 1000)>>]

\* lines 178-185 with ra_d and ra_c exchanged in BL_ranges
PointDAndReturnExchanged ==
    /\ env.pc = "point_d"
    /\ \E sol \in breguet_leduc_formula(env.p.owe + env.p.mfw, env.p.owe, env.p.coeff,
                                        env.p.sizing_range * 10) :
        env' = [env EXCEPT !.pc = "done", !.ier = Append(@, sol.ier)]
               @@ [ra_d |-> sol.x, out |-> Returned(env, env.ra_b, sol.x, env.ra_c)]
    /\ EnvUnchanged

\* lines 178-185: point D, then the two arrays are returned
PointDAndReturn ==
    /\ env.pc = "point_d"
    /\ \E sol \in breguet_leduc_formula(env.p.owe + env.p.mfw, env.p.owe, env.p.coeff,
                                        env.p.sizing_range * 10) :
        env' = [env EXCEPT !.pc = "done", !.ier = Append(@, sol.ier)]
               @@ [ra_d |-> sol.x, out |-> Returned(env, env.ra_b, env.ra_c, sol.x)]
    /\ EnvUnchanged

EnvNext == PointC \/ PointBInterpolated \/ PointBSolved \/ PointDAndReturn

SpecEnvelope == EnvInit /\ [][EnvNext]_vars

\* C7 as stated: when a solve of the range equation does not converge the
\* call ends in a computation error, and no unconverged iterate is returned
\* as the range of an envelope point.
C7_AsStated ==
    (env.pc = "done" /\ \E k \in 1..Len(env.ier) : env.ier[k] # 1) => env.out.status # "ok"

Done == env.pc = "done" /\ env.out.status = "ok"

\* a consistent parameter set: point C's payload MTOW - MFW - OWE is not
\* negative and below the design payload, the design payload is at most the
\* max payload, the max payload fits under MTOW, and the design range is not
\* beyond the range computed for point C
Consistent ==
    /\ 0 <= env.p.mtow - env.p.mfw - env.p.owe
    /\ env.p.mtow - env.p.mfw - env.p.owe < env.p.sizing_payload
    /\ env.p.sizing_payload <= env.p.max_payload
    /\ env.p.owe + env.p.max_payload <= env.p.mtow
    /\ 0 <= env.p.sizing_range
    /\ RLe(RInt(env.p.sizing_range), env.out.BL_ranges[3])

\* payload(A) = payload(B) = max_payload >= payload(design) = design_payload
\* >= payload(C) >= payload(D) = 0, payloads in tonnes
PayloadChain ==
    LET pl == env.out.BL_payloads
    IN  /\ pl[1] = pl[2]
        /\ pl[2] = Rat(env.p.max_payload, 1000)
        /\ RGe(pl[2], pl[5])
        /\ pl[5] = Rat(env.p.sizing_payload, 1000)
        /\ RGe(pl[5], pl[3])
        /\ RGe(pl[3], pl[4])
        /\ pl[4] = RInt(0)

\* C15 as stated: for every consistent parameter set the returned envelope
\* has the payload chain above and range(A) = 0 <= range(C) <= range(B).
C15_AsStated ==
    (Done /\ Consistent) =>
        /\ PayloadChain
        /\ env.out.BL_ranges[1] = RInt(0)
        /\ RLe(RInt(0), env.out.BL_ranges[3])
        /\ RLe(env.out.BL_ranges[3], env.out.BL_ranges[2])

\* C15 amended: for every consistent parameter set the returned envelope
\* has the payload chain above and range(A) = 0 <= range(B) <= range(C).
C15_EnvelopeOrdering ==
    (Done /\ Consistent) =>
        /\ PayloadChain
        /\ env.out.BL_ranges[1] = RInt(0)
        /\ RLe(RInt(0), env.out.BL_ranges[2])
        /\ RLe(env.out.BL_ranges[2], env.out.BL_ranges[3])

\* a consistent set whose interpolated range(B) was negative, so that
\* range(B) was solved for, and lies strictly between 0 and range(C)
C15_Witness ==
    /\ Done /\ Consistent
    /\ Len(env.ier) = 3
    /\ RLt(RInt(0), env.out.BL_ranges[2])
    /\ RLt(env.out.BL_ranges[2], env.out.BL_ranges[3])
    /\ RLt(env.out.BL_ranges[5], env.out.BL_ranges[3])

\* the values breguet_leduc_formula may give for two masses of the call
RangesFor(mass_in, mass_out) ==
    {sol.x : sol \in breguet_leduc_formula(mass_in, mass_out, env.p.coeff,
                                           env.p.sizing_range * 10)}

\* C16: five ranges and five payloads (in tonnes) come back in the order
\* [A, B, C, D, design]: A is (0, max payload); B has the max payload and
\* the range of the line through the design point and C at that payload or,
\* when that is negative, the range solved for MTOW and OWE + max payload;
\* C has payload MTOW - MFW - OWE and the range solved for MTOW and
\* MTOW - MFW; D has payload 0 and the range solved for OWE + MFW and OWE;
\* the fifth entry is (design range, design payload).
C16_FixedOrder ==
    Done =>
        LET r      == env.out.BL_ranges
            pl     == env.out.BL_payloads
            interp == RAdd(RDiv(RMul(RSub(r[5], r[3]), RSub(pl[2], pl[3])),
                                RSub(pl[5], pl[3])),
                           r[3])
        IN  /\ Len(r) = 5 /\ Len(pl) = 5
            /\ r[1] = RInt(0) /\ pl[1] = Rat(env.p.max_payload, 1000)
            /\ pl[2] = Rat(env.p.max_payload, 1000)
            /\ IF RGe(interp, RInt(0)) THEN r[2] = interp
               ELSE r[2] \in RangesFor(env.p.mtow, env.p.owe + env.p.max_payload)
            /\ pl[3] = Rat(env.p.mtow - env.p.mfw - env.p.owe, 1000)
            /\ r[3] \in RangesFor(env.p.mtow, env.p.mtow - env.p.mfw)
            /\ pl[4] = RInt(0)
            /\ r[4] \in RangesFor(env.p.owe + env.p.mfw, env.p.owe)
            /\ r[5] = RInt(env.p.sizing_range)
            /\ pl[5] = Rat(env.p.sizing_payload, 1000)

C16_Witness ==
    /\ Done
    /\ \A k \in 1..Len(env.ier) : env.ier[k] = 1
    /\ Len(env.ier) = 2
    /\ env.out.BL_ranges[3] # env.out.BL_ranges[4]
    /\ env.out.BL_ranges[2] # env.out.BL_ranges[5]
    /\ env.out.BL_payloads[3] # env.out.BL_payloads[5]

\* the range at the max payload on the line through point C and the design
\* point of the returned envelope
LineAtMaxPayload ==
    LET r  == env.out.BL_ranges
        pl == env.out.BL_payloads
    IN  RAdd(r[3], RMul(RSub(r[5], r[3]),
                        RDiv(RSub(pl[2], pl[3]), RSub(pl[5], pl[3]))))

\* C23: range(B) is the value of the line through the design point and
\* point C at the max payload whenever that value is not negative, and no
\* solve is made for B then; when the value is negative, range(B) is what
\* the solve for the masses MTOW and OWE + max_payload gave, the root of
\* the range equation for that mass ratio when the solve converged.
C23_RangeBInterpolatedOrSolved ==
    Done =>
        IF RGe(LineAtMaxPayload, RInt(0))
        THEN /\ env.out.BL_ranges[2] = LineAtMaxPayload
             /\ Len(env.ier) = 2
        ELSE /\ Len(env.ier) = 3
             /\ env.out.BL_ranges[2] \in RangesFor(env.p.mtow, env.p.owe + env.p.max_payload)
             /\ env.ier[2] = 1 =>
                    env.out.BL_ranges[2] =
                        Root(env.p.mtow, env.p.owe + env.p.max_payload, env.p.coeff)

C23_Witness ==
    /\ Done
    /\ RLt(LineAtMaxPayload, RInt(0))
    /\ env.ier = <<1, 1, 1>>
    /\ RGt(env.out.BL_ranges[2], RInt(0))
    /\ env.out.BL_ranges[2] # env.out.BL_ranges[3]

(***************************************************************************)
(* VnDiagram.compute (v_n_diagram.py), lines 111-133: the load factors.    *)
(* Python floats are exact rationals here.  The rest of compute (lines     *)
(* 135-250, the speeds of the diagram) reads the four load factors and     *)
(* assigns none of them.                                                   *)
(***************************************************************************)
\* a product of two floats, reduced crosswise before it is multiplied out
RTimes(a, b) ==
    LET g1 == GCD(Abs(a[1]), b[2])
        g2 == GCD(Abs(b[1]), a[2])
    IN  Rat((a[1] \div g1) * (b[1] \div g2), (a[2] \div g2) * (b[2] \div g1))

\* the factor 2.2046 of lines 121 and 128
KgToLb == Rat(22046, 10000)

\* a mass in kg that weighs lb pounds at that factor
MassOfLb(lb) == RDiv(lb, KgToLb)

\* masses in kg: integer ones, the two at which the formula gives exactly
\* 3.8 and 2.5, negative ones, and the one at which the divisor is zero
VnMasses ==
    {RInt(0), RInt(1000), RInt(3000), RInt(10000), RInt(20000), RInt(40000), RInt(70000),
     RInt(-1000), RInt(-5000),
     MassOfLb(Rat(70000, 17)), MassOfLb(RInt(50000)), MassOfLb(RInt(-10000))}

\* 10000 + mass * 2.2046
Divisor(mass) == RAdd(RInt(10000), RTimes(mass, KgToLb))

\* 2.1 + 24000 / (10000 + mass * 2.2046), for a divisor that is not zero
FormulaValue(mass) == RAdd(Rat(21, 10), RDiv(RInt(24000), Divisor(mass)))

\* lines 121-125 with the elif branch left out
MaximumPositiveLoadFactorNotCapped(mass) ==
    IF RLt(FormulaValue(mass), Rat(25, 10)) THEN Rat(25, 10)
    ELSE FormulaValue(mass)

\* lines 121-125 (128-132): the formula value, then the if / elif
MaximumPositiveLoadFactor(mass) ==
    IF RLt(FormulaValue(mass), Rat(25, 10)) THEN Rat(25, 10)
    ELSE IF RGt(FormulaValue(mass), Rat(38, 10)) THEN Rat(38, 10)
    ELSE FormulaValue(mass)

\* lines 126 and 133
MaximumNegativeLoadFactor(positive) == RTimes(Rat(-4, 10), positive)

VnInit ==
    /\ \E m1 \in VnMasses, m2 \in VnMasses : vn = [pc |-> "mtow", mtow |-> m1, mzfw |-> m2]
    /\ SweepIdle
    /\ sim = 1
    /\ gin = [status |-> "none"]
    /\ gout = [status |-> "none"]
    /\ env = [pc |-> "none"]
    /\ seed = [pc |-> "none"]

VnUnchanged ==
    UNCHANGED <<gin, gout, args, pc, grid, idx, workdir, table, desc, log, outcome, runs, full,
                atStart, sim, env, seed>>

\* lines 121-126; a float division by zero raises ZeroDivisionError
LoadFactorsMtow ==
    /\ vn.pc = "mtow"
    /\ vn' = IF Divisor(vn.mtow) = RInt(0)
             THEN [vn EXCEPT !.pc = "ZeroDivisionError"]
             ELSE [vn EXCEPT !.pc = "mzfw"]
                  @@ [maximum_positive_load_factor_mtow |->
                          MaximumPositiveLoadFactor(vn.mtow),
                      maximum_negative_load_factor_mtow |->
                          MaximumNegativeLoadFactor(MaximumPositiveLoadFactor(vn.mtow))]
    /\ VnUnchanged

\* lines 128-133
LoadFactorsMzfw ==
    /\ vn.pc = "mzfw"
    /\ vn' = IF Divisor(vn.mzfw) = RInt(0)
             THEN [vn EXCEPT !.pc = "ZeroDivisionError"]
             ELSE [vn EXCEPT !.pc = "speeds"]
                  @@ [maximum_positive_load_factor_mzfw |->
                          MaximumPositiveLoadFactor(vn.mzfw),
                      maximum_negative_load_factor_mzfw |->
                          MaximumNegativeLoadFactor(MaximumPositiveLoadFactor(vn.mzfw))]
    /\ VnUnchanged

VnNext ==
    \/ LoadFactorsMtow
    \/ LoadFactorsMzfw

SpecVn == VnInit /\ [][VnNext]_vars

\* positive is the formula value of the mass brought into [2.5, 3.8] and
\* negative is -0.4 times positive
ClampedPair(mass, positive, negative) ==
    /\ RLe(Rat(5, 2), positive) /\ RLe(positive, Rat(19, 5))
    /\ \/ positive = FormulaValue(mass)
       \/ positive = Rat(5, 2) /\ RLt(FormulaValue(mass), Rat(5, 2))
       \/ positive = Rat(19, 5) /\ RGt(FormulaValue(mass), Rat(19, 5))
    /\ RMul(RInt(5), negative) = RMul(RInt(-2), positive)

\* C28: in VnDiagram.compute the maximum positive load factor computed for
\* MTOW and the one computed for MZFW lie in [2.5, 3.8], each being the
\* formula value of its mass clamped to those bounds, and each maximum
\* negative load factor is -0.4 times the positive one of the same mass.
C28_LoadFactorsClamped ==
    /\ vn.pc \in {"mzfw", "speeds"} =>
           ClampedPair(vn.mtow, vn.maximum_positive_load_factor_mtow,
                       vn.maximum_negative_load_factor_mtow)
    /\ vn.pc = "speeds" =>
           ClampedPair(vn.mzfw, vn.maximum_positive_load_factor_mzfw,
                       vn.maximum_negative_load_factor_mzfw)

C28_Witness ==
    /\ vn.pc = "speeds"
    /\ vn.maximum_positive_load_factor_mtow = Rat(5, 2)
    /\ RLt(FormulaValue(vn.mtow), Rat(5, 2))
    /\ vn.maximum_positive_load_factor_mzfw = FormulaValue(vn.mzfw)
    /\ RLt(vn.maximum_positive_load_factor_mzfw, Rat(19, 5))
    /\ RGt(vn.maximum_positive_load_factor_mzfw, Rat(5, 2))

====
